---- MODULE Spec2Model ----
(***************************************************************************)
(* Model of the AI Detector Pro FastAPI service (src/main.py): the         *)
(* language classifier, the AI-likelihood scorer, the similarity scorer    *)
(* and the two POST handlers around them.                                  *)
(*                                                                         *)
(* Text is a sequence of Unicode code points.  Python floats are IEEE-754  *)
(* binary64 values; a non-negative float is modelled exactly, as the       *)
(* natural number value * 2^FracBits, held as a sequence of digits (a      *)
(* machine integer is 32 bits wide, a double's significand 53).            *)
(***************************************************************************)
EXTENDS Integers, Sequences, FiniteSets, TLC

\* requests:  the requests received, in order of arrival
\* responses: per request, the responses sent for it
\* log:       the records logger.exception wrote, in order
VARIABLES requests, responses, log

vars == <<requests, responses, log>>

(***************************************************************************)
(* Natural numbers of arbitrary size: little-endian sequences of digits    *)
(* in base 2^15, with no leading zero digit; zero is the empty sequence.   *)
(***************************************************************************)
DigitBits == 15
Base == 2^DigitBits

BDig(a, j) == IF j >= 1 /\ j <= Len(a) THEN a[j] ELSE 0

BNorm(a) ==
    IF \A j \in 1..Len(a) : a[j] = 0 THEN <<>>
    ELSE SubSeq(a, 1, CHOOSE j \in 1..Len(a) :
                          a[j] # 0 /\ \A k \in (j + 1)..Len(a) : a[k] = 0)

\* a machine integer (below 2^31) as a number
BFromNat(n) == BNorm(<<n % Base, (n \div Base) % Base, n \div (Base * Base)>>)

\* a number below 2^30 as a machine integer
BToNat(a) == BDig(a, 1) + Base * BDig(a, 2)

BMaxLen(a, b) == IF Len(a) >= Len(b) THEN Len(a) ELSE Len(b)

RECURSIVE BAddFrom(_, _, _, _)
BAddFrom(a, b, j, c) ==
    IF j > BMaxLen(a, b) THEN <<c>>
    ELSE <<(BDig(a, j) + BDig(b, j) + c) % Base>>
         \o BAddFrom(a, b, j + 1, (BDig(a, j) + BDig(b, j) + c) \div Base)

BAdd(a, b) == BNorm(BAddFrom(a, b, 1, 0))

\* a - b, for a >= b; c is the borrow
RECURSIVE BSubFrom(_, _, _, _)
BSubFrom(a, b, j, c) ==
    IF j > Len(a) THEN <<>>
    ELSE <<(Base + BDig(a, j) - BDig(b, j) - c) % Base>>
         \o BSubFrom(a, b, j + 1, IF BDig(a, j) - BDig(b, j) - c < 0 THEN 1 ELSE 0)

BSub(a, b) == BNorm(BSubFrom(a, b, 1, 0))

\* a * k, for a machine integer k below 2^15
RECURSIVE BMulFrom(_, _, _, _)
BMulFrom(a, k, j, c) ==
    IF j > Len(a) THEN <<c>>
    ELSE <<(a[j] * k + c) % Base>> \o BMulFrom(a, k, j + 1, (a[j] * k + c) \div Base)

BMulNat(a, k) == BNorm(BMulFrom(a, k, 1, 0))

\* a * 2^n
BShl(a, n) == IF a = <<>> THEN <<>>
              ELSE [j \in 1..(n \div DigitBits) |-> 0] \o BMulNat(a, 2^(n % DigitBits))

\* -1, 0, 1 as a < b, a = b, a > b
BCmp(a, b) ==
    IF Len(a) > Len(b) THEN 1
    ELSE IF Len(a) < Len(b) THEN -1
    ELSE IF a = b THEN 0
    ELSE LET j == CHOOSE j \in 1..Len(a) :
                      a[j] # b[j] /\ \A k \in (j + 1)..Len(a) : a[k] = b[k]
         IN  IF a[j] > b[j] THEN 1 ELSE -1

\* quotient and remainder of a by the machine integer d (below 2^16): long
\* division from the top digit; r is the remainder so far, q the quotient so far
RECURSIVE BDivFrom(_, _, _, _, _)
BDivFrom(a, d, j, r, q) ==
    IF j = 0 THEN [q |-> BNorm(q), r |-> r]
    ELSE BDivFrom(a, d, j - 1, (r * Base + a[j]) % d, <<(r * Base + a[j]) \div d>> \o q)

BDivNat(a, d) == BDivFrom(a, d, Len(a), 0, <<>>)

\* the number of bits of a
BBitLen(a) ==
    IF a = <<>> THEN 0
    ELSE (Len(a) - 1) * DigitBits
         + (CHOOSE n \in 1..DigitBits : 2^(n - 1) <= a[Len(a)] /\ a[Len(a)] < 2^n)

\* bit i of a, the lowest being bit 1
BBit(a, i) == (BDig(a, (i - 1) \div DigitBits + 1) \div 2^((i - 1) % DigitBits)) % 2

\* a mod 2^n is not zero
BLowBits(a, n) ==
    \/ \E j \in 1..(n \div DigitBits) : BDig(a, j) # 0
    \/ BDig(a, n \div DigitBits + 1) % 2^(n % DigitBits) # 0

\* the integer part of a / 2^n
BShr(a, n) ==
    BNorm([j \in 1..Len(a) |->
             BDig(a, j + n \div DigitBits) \div 2^(n % DigitBits)
             + (BDig(a, j + n \div DigitBits + 1) % 2^(n % DigitBits))
               * 2^(DigitBits - (n % DigitBits))])

\* a / 2^n rounded to the nearest integer, ties to even
BRoundShift(a, n) ==
    IF n = 0 THEN a
    ELSE IF BBit(a, n) = 1 /\ (BLowBits(a, n - 1) \/ BBit(a, n + 1) = 1)
    THEN BAdd(BShr(a, n), <<1>>)
    ELSE BShr(a, n)

(***************************************************************************)
(* binary64 arithmetic on non-negative values, as Python's float does it   *)
(***************************************************************************)
\* a double's significand holds 53 bits
MantBits == 53
\* every float the service computes is a multiple of 2^-56 (the ulp of 0.1)
FracBits == 56
\* guard bits of a division, ahead of the rounding to MantBits
GuardBits == 16

\* round to nearest, ties to even, keeping MantBits significant bits
FRound(a) == IF BBitLen(a) <= MantBits THEN a
             ELSE BShl(BRoundShift(a, BBitLen(a) - MantBits), BBitLen(a) - MantBits)

\* the quotient of a division with a sticky bit below it: the remainder is not zero
Sticky(x) == BAdd(BShl(x.q, 1), IF x.r = 0 THEN <<>> ELSE <<1>>)

\* the float nearest to n / d: a decimal literal such as 0.1 (1/10), and float division
FromRatio(n, d) ==
    BShr(FRound(Sticky(BDivNat(BShl(BFromNat(n), FracBits + GuardBits), d))), GuardBits + 1)

FromNat(n) == FromRatio(n, 1)

FAdd(x, y) == FRound(BAdd(x, y))
\* x - y for x >= y
FSub(x, y) == FRound(BSub(x, y))
\* float(k) * x, for an integer k a float holds exactly
FMulNat(k, x) == FRound(BMulNat(x, k))
FGt(x, y) == BCmp(x, y) = 1
FLt(x, y) == BCmp(x, y) = -1

RECURSIVE Pow10(_)
Pow10(n) == IF n = 0 THEN 1 ELSE 10 * Pow10(n - 1)

\* round(x, ndigits): the decimal with ndigits digits nearest to x's exact value
\* (ties to even), then the float nearest to that decimal
RoundDigits(x, ndigits) == BToNat(BRoundShift(BMulNat(x, Pow10(ndigits)), FracBits))
Round(x, ndigits) == FromRatio(RoundDigits(x, ndigits), Pow10(ndigits))

(***************************************************************************)
(* Python str operations on sequences of code points                       *)
(***************************************************************************)
\* the code points the model's texts are written in
Ch == [tab |-> 9, newline |-> 10, space |-> 32, bang |-> 33, dot |-> 46, one |-> 49,
       question |-> 63, A |-> 65, a |-> 97, x |-> 120, z |-> 122, Idot |-> 304,
       arabic_question |-> 1567, beh |-> 1576, kelvin |-> 8490]

\* str.isspace(): the characters strip() and split() treat as whitespace
IsSpace(c) == \/ c \in 9..13 \/ c \in 28..32 \/ c \in {133, 160, 5760}
              \/ c \in 8192..8202 \/ c \in {8232, 8233, 8239, 8287, 12288}

\* str.lower() of one character, a string: A-Z, and the only two characters outside
\* ASCII whose lower case is or starts with an ASCII letter, KELVIN SIGN (U+212A) and
\* I WITH DOT ABOVE (U+0130); the other characters of Ch have no lower case
Lower(c) == IF c \in 65..90 THEN <<c + 32>>
            ELSE IF c = 8490 THEN <<107>>
            ELSE IF c = 304 THEN <<105, 775>>
            ELSE <<c>>

\* s <= t in Python's order of strings (code point by code point, a prefix first)
StrLe(s, t) ==
    \/ Len(s) <= Len(t) /\ \A i \in 1..Len(s) : s[i] = t[i]
    \/ \E i \in 1..Len(s) : /\ i <= Len(t)
                            /\ s[i] < t[i]
                            /\ \A j \in 1..(i - 1) : s[j] = t[j]

LStrip(s) == IF \A i \in 1..Len(s) : IsSpace(s[i]) THEN <<>>
             ELSE SubSeq(s, CHOOSE i \in 1..Len(s) :
                                /\ ~IsSpace(s[i])
                                /\ \A j \in 1..(i - 1) : IsSpace(s[j]),
                         Len(s))

RStrip(s) == IF \A i \in 1..Len(s) : IsSpace(s[i]) THEN <<>>
             ELSE SubSeq(s, 1, CHOOSE i \in 1..Len(s) :
                                   /\ ~IsSpace(s[i])
                                   /\ \A j \in (i + 1)..Len(s) : IsSpace(s[j]))

\* str.strip()
Strip(s) == RStrip(LStrip(s))

\* the positions 1..Len(s), in order
Positions(s) == [i \in 1..Len(s) |-> i]

\* str.split(): the maximal runs of characters that are not whitespace
WordStarts(s) ==
    LET IsStart(i) == ~IsSpace(s[i]) /\ (i = 1 \/ IsSpace(s[i - 1]))
    IN  SelectSeq(Positions(s), IsStart)
WordEnds(s) ==
    LET IsEnd(i) == ~IsSpace(s[i]) /\ (i = Len(s) \/ IsSpace(s[i + 1]))
    IN  SelectSeq(Positions(s), IsEnd)
SplitAt(s, starts, ends) == [k \in 1..Len(starts) |-> SubSeq(s, starts[k], ends[k])]
Split(s) == SplitAt(s, WordStarts(s), WordEnds(s))

\* str.replace(old, new) for one-character strings
Replace(s, old, new) == [i \in 1..Len(s) |-> IF s[i] = old THEN new ELSE s[i]]

\* str.split(sep) for a one-character separator: the pieces between separators,
\* the empty ones included
SepAt(s, sep) ==
    LET IsSep(i) == s[i] = sep
    IN  SelectSeq(Positions(s), IsSep)
PiecesAt(s, seps) ==
    [k \in 1..(Len(seps) + 1) |->
       SubSeq(s,
              IF k = 1 THEN 1 ELSE seps[k - 1] + 1,
              IF k = Len(seps) + 1 THEN Len(s) ELSE seps[k] - 1)]
SplitOn(s, sep) == PiecesAt(s, SepAt(s, sep))

RECURSIVE SumFrom(_, _)
SumFrom(ns, i) == IF i > Len(ns) THEN 0 ELSE ns[i] + SumFrom(ns, i + 1)
\* sum() of a sequence of integers
Sum(ns) == SumFrom(ns, 1)

(***************************************************************************)
(* Python values, dicts and the outcome of a call                          *)
(***************************************************************************)
PyStr(s)   == [type |-> "str", val |-> s]
PyInt(n)   == [type |-> "int", val |-> <<n>>]
PyList(xs) == [type |-> "list", val |-> xs]
PyNone     == [type |-> "NoneType", val |-> <<>>]

\* `not v` is false exactly for these
Truthy(v) == CASE v.type = "str"  -> v.val # <<>>
               [] v.type = "list" -> v.val # <<>>
               [] v.type = "int"  -> v.val # <<0>>
               [] OTHER           -> FALSE

\* a dict is a set of <<key, value>> pairs; dict.get(key, default)
Get(d, key, default) ==
    IF \E kv \in d : kv[1] = key THEN (CHOOSE kv \in d : kv[1] = key)[2] ELSE default

Return(v) == [kind |-> "return", value |-> v]
Raise(e)  == [kind |-> "raise", value |-> e]

HTTPException(status_code, detail) ==
    [class |-> "HTTPException", status_code |-> status_code, detail |-> detail]
AttributeError == [class |-> "AttributeError", status_code |-> 0, detail |-> "no attribute strip"]
TypeError      == [class |-> "TypeError", status_code |-> 0, detail |-> "object has no len"]

\* str(e), the detail the except clauses pass on: it carries the exception caught
StrOf(e) == <<e.class, e.status_code, e.detail>>

\* the float literals of the source
F0_1 == FromRatio(1, 10)
F0_2 == FromRatio(2, 10)
F0_3 == FromRatio(3, 10)
F0_4 == FromRatio(4, 10)
F0_5 == FromRatio(5, 10)
F0_7 == FromRatio(7, 10)
F1   == FromNat(1)

(***************************************************************************)
(* detect_language_advanced                                                *)
(***************************************************************************)
arabic_chars(text) ==
    Cardinality({i \in 1..Len(text) :
                   StrLe(<<1536>>, <<text[i]>>) /\ StrLe(<<text[i]>>, <<1791>>)})

english_chars(text) ==
    Cardinality({i \in 1..Len(text) :
                   StrLe(<<97>>, Lower(text[i])) /\ StrLe(Lower(text[i]), <<122>>)})

detect_language_advanced(text) ==
    IF text = <<>> \/ Len(Strip(text)) < 10 THEN "unknown"
    ELSE IF arabic_chars(text) > english_chars(text) * 2 THEN "arabic"
    ELSE IF english_chars(text) > arabic_chars(text) * 2 THEN "english"
    ELSE "mixed"

(***************************************************************************)
(* advanced_ai_detection                                                   *)
(***************************************************************************)
\* the sentences: the text with ! ? and the Arabic question mark turned into
\* full stops, split at the full stops, each piece stripped, the empty ones dropped
StrippedNonEmpty(pieces) ==
    LET NonEmpty(piece) == Strip(piece) # <<>>
    IN  SelectSeq([k \in 1..Len(pieces) |-> Strip(pieces[k])], NonEmpty)

sentences_of(text) ==
    StrippedNonEmpty(
        SplitOn(Replace(Replace(Replace(text, Ch.bang, Ch.dot), Ch.question, Ch.dot),
                        Ch.arabic_question, Ch.dot),
                Ch.dot))

\* sum(len(s.split()) for s in sentences) / len(sentences) if sentences else 0
avg_of(sentences) ==
    IF sentences # <<>>
    THEN FromRatio(Sum([k \in 1..Len(sentences) |-> Len(Split(sentences[k]))]),
                   Len(sentences))
    ELSE FromNat(0)

avg_sentence_len(text) == avg_of(sentences_of(text))

\* ai_probability_of with the upper threshold not strict
ai_probability_of_inclusive(avg) ==
    IF FGt(avg, FromNat(25)) \/ avg = FromNat(25) THEN F0_7
    ELSE IF FLt(avg, FromNat(10)) THEN F0_3
    ELSE F0_5

ai_probability_of(avg) ==
    IF FGt(avg, FromNat(25)) THEN F0_7
    ELSE IF FLt(avg, FromNat(10)) THEN F0_3
    ELSE F0_5

note_of(ai_probability) ==
    IF FGt(ai_probability, F0_7) THEN "high likelihood of AI-generated text"
    ELSE IF FLt(ai_probability, F0_3) THEN "clearly human text"
    ELSE "inconclusive result"

\* human_probability_of without the rounding
human_probability_of_unrounded(ai_probability) == FSub(F1, ai_probability)

human_probability_of(ai_probability) == Round(FSub(F1, ai_probability), 3)

\* too_short on the text as given, not stripped
too_short_unstripped(text) == text = <<>> \/ Len(text) < 20

too_short(text) == text = <<>> \/ Len(Strip(text)) < 20

\* the dict returned for a text that is long enough
scored(text, words, avg_len, ai_probability) ==
    [ai_probability |-> Round(ai_probability, 3),
     human_probability |-> human_probability_of(ai_probability),
     note |-> note_of(ai_probability),
     confidence |-> 80,
     language |-> detect_language_advanced(text),
     analysis |-> [word_count |-> Len(words),
                   avg_sentence_length |-> Round(avg_len, 1)]]

analysed(text, words, avg_len) == scored(text, words, avg_len, ai_probability_of(avg_len))

advanced_ai_detection(text) ==
    IF text.type # "str" THEN Raise(AttributeError)
    ELSE IF too_short(text.val)
    THEN Return([ai_probability |-> F0_5,
                 note |-> "text too short for accurate analysis",
                 confidence |-> 50,
                 language |-> detect_language_advanced(text.val)])
    ELSE Return(analysed(text.val, Split(text.val), avg_sentence_len(text.val)))

(***************************************************************************)
(* The handlers.  Each returns the outcome of the coroutine: the value     *)
(* returned or the exception that leaves it.                               *)
(***************************************************************************)
\* except Exception as e: raise HTTPException(status_code=500, detail=str(e))
\* (HTTPException is a subclass of Exception, so the clause catches it too)
except_Exception(outcome) ==
    IF outcome.kind = "raise"
    THEN Raise(HTTPException(500, StrOf(outcome.value)))
    ELSE outcome

\* logger.exception(...) runs once in the except clause
logged(outcome) == outcome.kind = "raise"

detect_ai_try(payload) ==
    LET text == Get(payload, "text", PyStr(<<>>))
    IN  IF ~Truthy(text) THEN Raise(HTTPException(400, "text is required"))
        ELSE LET result == advanced_ai_detection(text)
             IN  IF result.kind = "raise" THEN result
                 ELSE Return(result.value @@ [method |-> "advanced_algorithm"])

detect_ai(payload) == except_Exception(detect_ai_try(payload))

\* range(1, n + 1)
RangeFromOne(n) == [k \in 1..n |-> k]

\* range(n)
Range(n) == [k \in 1..n |-> k - 1]

raw_score(i) == FAdd(F0_1, FMulNat(i, F0_1))

status_of(score) == IF FGt(score, F0_7) THEN "high"
                    ELSE IF FGt(score, F0_4) THEN "medium"
                    ELSE "low"

result_entry(i) == [ref_index |-> i,
                    score |-> Round(raw_score(i), 2),
                    percentage |-> Round(FMulNat(100, raw_score(i)), 2),
                    status |-> status_of(raw_score(i))]

\* check_plagiarism_try with `results` a module-level list that is never cleared: it
\* still holds the entries of the request handled last, the longest list sent so far
results_kept ==
    LET sent == {id \in 1..Len(requests) :
                   /\ requests[id].endpoint = "/api/check_plagiarism"
                   /\ responses[id] # <<>>
                   /\ responses[id][1].status = 200}
    IN  IF sent = {} THEN <<>>
        ELSE responses[CHOOSE id \in sent :
                           \A other \in sent :
                               Len(responses[other][1].body.scores)
                                   <= Len(responses[id][1].body.scores)][1].body.scores

check_plagiarism_try_shared(payload) ==
    LET references == Get(payload, "references", PyList(<<>>))
    IN  IF references.type \notin {"list", "str"} THEN Raise(TypeError)
        ELSE Return([scores |-> results_kept
                                \o [k \in 1..Len(Range(Len(references.val))) |->
                                      result_entry(Range(Len(references.val))[k])],
                     summary |-> [total_references |-> Len(references.val),
                                  highest_similarity |-> F0_3,
                                  average_similarity |-> F0_2]])

check_plagiarism_try(payload) ==
    LET references == Get(payload, "references", PyList(<<>>))
    IN  IF references.type \notin {"list", "str"} THEN Raise(TypeError)
        ELSE Return([scores |-> [k \in 1..Len(Range(Len(references.val))) |->
                                   result_entry(Range(Len(references.val))[k])],
                     summary |-> [total_references |-> Len(references.val),
                                  highest_similarity |-> F0_3,
                                  average_similarity |-> F0_2]])

check_plagiarism(payload) == except_Exception(check_plagiarism_try(payload))

\* what the framework sends for the outcome of a handler
Response(outcome) ==
    IF outcome.kind = "return"
    THEN [status |-> 200, body |-> outcome.value]
    ELSE [status |-> outcome.value.status_code, body |-> [detail |-> outcome.value.detail]]

(***************************************************************************)
(* The server: requests arrive with their JSON body parsed, and each       *)
(* handler runs to completion on the event loop (no handler awaits).       *)
(***************************************************************************)
Ids == 1..Len(requests)

Receive(endpoint, payload, limit) ==
    /\ Len(requests) < limit
    /\ requests' = Append(requests,
                          [endpoint |-> endpoint, payload |-> payload, state |-> "pending"])
    /\ responses' = Append(responses, <<>>)
    /\ UNCHANGED log

Finish(id, try) ==
    /\ requests' = [requests EXCEPT ![id].state = "done"]
    /\ responses' = [responses EXCEPT ![id] = Append(@, Response(except_Exception(try)))]
    /\ log' = IF logged(try) THEN Append(log, requests[id].endpoint) ELSE log

DetectAI(id) ==
    /\ requests[id].state = "pending"
    /\ requests[id].endpoint = "/api/detect_ai"
    /\ Finish(id, detect_ai_try(requests[id].payload))

CheckPlagiarism(id) ==
    /\ requests[id].state = "pending"
    /\ requests[id].endpoint = "/api/check_plagiarism"
    /\ Finish(id, check_plagiarism_try(requests[id].payload))

(***************************************************************************)
(* Inputs                                                                  *)
(***************************************************************************)
\* requests in flight together
MaxRequests == 2
\* words in the first sentence of a text
MaxWords == 31
\* length of a text made of one repeated character
MaxRun == 21
\* references in a request
MaxRefs == 12

\* n copies of the string w
Rep(w, n) == [i \in 1..(n * Len(w)) |-> w[((i - 1) % Len(w)) + 1]]
\* n copies of the word w, a space between them
Words(w, n) == IF n = 0 THEN <<>> ELSE Rep(w \o <<Ch.space>>, n - 1) \o w

\* the first and second sentence's word: Latin and Arabic, upper case, Kelvin signs
WordPairs == {<<<<Ch.a>>, <<Ch.beh>>>>,
              <<<<Ch.A, Ch.z>>, <<Ch.a>>>>,
              <<<<Ch.kelvin>>, <<Ch.beh, Ch.beh>>>>}

\* what a text opens with and what ends its first sentence
Openings == {<<<<>>, <<Ch.dot>>>>,
             <<<<Ch.space, Ch.tab>>, <<Ch.arabic_question, Ch.space>>>>}

BuiltTexts ==
    {open[1] \o Words(ws[1], n1) \o open[2] \o Words(ws[2], n2) \o trail :
        open \in Openings,
        ws \in WordPairs,
        n1 \in 0..MaxWords,
        n2 \in {0, 1, 19, 20},
        trail \in {<<>>, <<Ch.bang>>,
                   <<Ch.question, Ch.space, Ch.one, Ch.dot, Ch.newline>>}}

RunTexts ==
    {Rep(<<c>>, n) :
        c \in {Ch.space, Ch.dot, Ch.one, Ch.a, Ch.Idot, Ch.beh, Ch.kelvin},
        n \in 0..MaxRun}

Texts == BuiltTexts \cup RunTexts

TextPayloads == {{<<"text", PyStr(t)>>} : t \in Texts}

RefLists == {[k \in 1..n |-> PyStr(<<c>>)] : n \in 0..MaxRefs, c \in {Ch.a, Ch.beh}}

PlagPayloads ==
    {{<<"doc", PyStr(d)>>, <<"references", PyList(refs)>>} :
        d \in {<<>>, <<120>>}, refs \in RefLists}
    \cup {{<<"references", PyList(refs)>>} : refs \in RefLists}
    \cup {{}, {<<"doc", PyStr(<<Ch.x>>)>>}, {<<"references", PyNone>>}}

\* the payloads of the concurrent runs: one of each kind of request
SomeDetectPayloads ==
    {{}, {<<"text", PyStr(<<>>)>>}, {<<"text", PyNone>>}, {<<"text", PyInt(5)>>},
     {<<"text", PyStr(<<72, 105>>)>>},
     {<<"text", PyStr(Words(<<Ch.a>>, 12) \o <<Ch.dot>>)>>},
     {<<"text", PyStr(Words(<<Ch.beh>>, 26) \o <<Ch.arabic_question>>)>>}}

SomePlagPayloads ==
    {{<<"doc", PyStr(<<Ch.x>>)>>, <<"references", PyList(Rep(<<PyStr(<<Ch.a>>)>>, n))>>} :
        n \in {0, 3}}
    \cup {{<<"references", PyNone>>}}

(***************************************************************************)
(* Specifications                                                          *)
(***************************************************************************)
Init == requests = <<>> /\ responses = <<>> /\ log = <<>>

Next ==
    \/ \E p \in SomeDetectPayloads : Receive("/api/detect_ai", p, MaxRequests)
    \/ \E p \in SomePlagPayloads : Receive("/api/check_plagiarism", p, MaxRequests)
    \/ \E id \in Ids : DetectAI(id)
    \/ \E id \in Ids : CheckPlagiarism(id)

\* concurrent requests of both kinds
Spec == Init /\ [][Next]_vars

\* one detect_ai request, its text drawn from Texts
InitText ==
    \E p \in TextPayloads :
        /\ requests = <<[endpoint |-> "/api/detect_ai", payload |-> p, state |-> "pending"]>>
        /\ responses = <<<<>>>>
        /\ log = <<>>

NextText == \E id \in Ids : DetectAI(id)

SpecText == InitText /\ [][NextText]_vars

\* one check_plagiarism request, its payload drawn from PlagPayloads
InitPlag ==
    \E p \in PlagPayloads :
        /\ requests = <<[endpoint |-> "/api/check_plagiarism", payload |-> p,
                         state |-> "pending"]>>
        /\ responses = <<<<>>>>
        /\ log = <<>>

NextPlag == \E id \in Ids : CheckPlagiarism(id)

SpecPlag == InitPlag /\ [][NextPlag]_vars

(***************************************************************************)
(* What the properties below speak of                                      *)
(***************************************************************************)
Done(id) == requests[id].state = "done"
IsDetect(id) == requests[id].endpoint = "/api/detect_ai"
IsPlag(id) == requests[id].endpoint = "/api/check_plagiarism"
\* the response of a request that is done
Sent(id) == responses[id][1]
Succeeded(id) == Done(id) /\ Len(responses[id]) = 1 /\ Sent(id).status = 200

HasText(id) == \E kv \in requests[id].payload : kv[1] = "text"
\* the text of a detect_ai request whose body carries a string
TextOf(id) == Get(requests[id].payload, "text", PyStr(<<>>)).val
HasStringText(id) ==
    IsDetect(id) /\ HasText(id) /\ Get(requests[id].payload, "text", PyNone).type = "str"

\* trimmed length: the characters from the first to the last that is not whitespace
TrimmedLen(t) ==
    Cardinality({i \in 1..Len(t) : /\ \E j \in 1..i : ~IsSpace(t[j])
                                   /\ \E j \in i..Len(t) : ~IsSpace(t[j])})

IsTerminator(c) == c \in {Ch.dot, Ch.bang, Ch.question, Ch.arabic_question}
\* a character of a word of a sentence: neither whitespace nor a terminator
InWord(c) == ~IsSpace(c) /\ ~IsTerminator(c)
\* the words of all sentences: the maximal runs of word characters
TotalWords(t) ==
    Cardinality({i \in 1..Len(t) : InWord(t[i]) /\ (i = 1 \/ ~InWord(t[i - 1]))})
\* the non-empty sentences: the first word character after each terminator or the start
SentenceCount(t) ==
    Cardinality({i \in 1..Len(t) :
                   /\ InWord(t[i])
                   /\ \E p \in 0..(i - 1) :
                          /\ p = 0 \/ IsTerminator(t[p])
                          /\ \A j \in (p + 1)..(i - 1) : IsSpace(t[j])})

ArabicCount(t) == Cardinality({i \in 1..Len(t) : t[i] \in 1536..1791})
AsciiLetterCount(t) == Cardinality({i \in 1..Len(t) : t[i] \in 65..90 \/ t[i] \in 97..122})

\* the references of a check_plagiarism request whose body carries a list
HasRefList(id) ==
    IsPlag(id) /\ Get(requests[id].payload, "references", PyNone).type = "list"
RefCount(id) == Len(Get(requests[id].payload, "references", PyList(<<>>)).val)

FMin(x, y) == IF FLt(x, y) THEN x ELSE y

(***************************************************************************)
(* Properties                                                              *)
(***************************************************************************)
\* C1: a detect_ai request with no text field, or with the empty string as text, is
\* answered with status 400 and the fixed validation message, never with 500 or 200.
C1_MissingTextIs400 ==
    \A id \in Ids :
        (Done(id) /\ IsDetect(id) /\ (~HasText(id) \/ (HasStringText(id) /\ TextOf(id) = <<>>)))
        => /\ Len(responses[id]) = 1
           /\ Sent(id).status = 400
           /\ Sent(id).body = [detail |-> "text is required"]

\* C2: for a text of trimmed length >= 20 the note follows the branch that set
\* ai_probability: 0.7 gives the high-likelihood note, 0.3 the clearly-human note,
\* 0.5 the inconclusive note.
C2_NoteFollowsProbability ==
    \A id \in Ids :
        (Succeeded(id) /\ HasStringText(id) /\ TrimmedLen(TextOf(id)) >= 20)
        => /\ Sent(id).body.ai_probability = F0_7
                => Sent(id).body.note = "high likelihood of AI-generated text"
           /\ Sent(id).body.ai_probability = F0_3
                => Sent(id).body.note = "clearly human text"
           /\ Sent(id).body.ai_probability = F0_5
                => Sent(id).body.note = "inconclusive result"

\* C3: every entry's score is min(1.0, 0.1 + i*0.1) (rounded to 2 decimals), so every
\* score lies in [0,1] and every percentage in [0,100], also at positions i >= 10.
C3_ScoreClamped ==
    \A id \in Ids :
        (Succeeded(id) /\ IsPlag(id))
        => \A k \in 1..Len(Sent(id).body.scores) :
               /\ Sent(id).body.scores[k].score
                      = Round(FMin(F1, FAdd(F0_1, FMulNat(k - 1, F0_1))), 2)
               /\ ~FGt(Sent(id).body.scores[k].score, F1)
               /\ ~FGt(Sent(id).body.scores[k].percentage, FromNat(100))

\* C4: for a text of trimmed length >= 20, ai_probability is 0.7 when the average
\* sentence length (total words over the number of non-empty sentences, 0 with no
\* sentence) is > 25, 0.3 when it is < 10, and 0.5 otherwise; nothing else is returned.
C4_ProbabilityByAverage ==
    \A id \in Ids :
        (Done(id) /\ HasStringText(id) /\ TrimmedLen(TextOf(id)) >= 20)
        => /\ Succeeded(id)
           /\ Sent(id).body.ai_probability =
                  IF TotalWords(TextOf(id)) > 25 * SentenceCount(TextOf(id)) THEN F0_7
                  ELSE IF \/ SentenceCount(TextOf(id)) = 0
                          \/ TotalWords(TextOf(id)) < 10 * SentenceCount(TextOf(id))
                       THEN F0_3
                  ELSE F0_5

\* C4 witness: a text answered whose average sentence length is exactly 25
C4_Witness ==
    \E id \in Ids :
        /\ Succeeded(id) /\ HasStringText(id) /\ TrimmedLen(TextOf(id)) >= 20
        /\ SentenceCount(TextOf(id)) >= 1
        /\ TotalWords(TextOf(id)) = 25 * SentenceCount(TextOf(id))
        /\ Sent(id).body.ai_probability = F0_5

\* C5: a non-empty text of trimmed length < 20 (whitespace alone included) is answered
\* 200 with ai_probability 0.5, confidence 50, the too-short note, and neither a
\* human_probability nor an analysis.
C5_ShortTextResult ==
    \A id \in Ids :
        (Done(id) /\ HasStringText(id) /\ TextOf(id) # <<>> /\ TrimmedLen(TextOf(id)) < 20)
        => /\ Succeeded(id)
           /\ Sent(id).body.ai_probability = F0_5
           /\ Sent(id).body.confidence = 50
           /\ Sent(id).body.note = "text too short for accurate analysis"
           /\ DOMAIN Sent(id).body \cap {"human_probability", "analysis"} = {}

\* C5 witness: a text of 20 characters or more, fewer than 20 of them once trimmed
C5_Witness ==
    \E id \in Ids :
        /\ Succeeded(id) /\ HasStringText(id)
        /\ Len(TextOf(id)) >= 20 /\ TrimmedLen(TextOf(id)) < 20

\* C6: for a non-empty reference list of length n the response has exactly n entries,
\* their ref_index 0, 1, ..., n-1 in that order, and summary.total_references = n.
C6_OneEntryPerReference ==
    \A id \in Ids :
        (Done(id) /\ HasRefList(id) /\ RefCount(id) >= 1)
        => /\ Succeeded(id)
           /\ Len(Sent(id).body.scores) = RefCount(id)
           /\ \A k \in 1..Len(Sent(id).body.scores) :
                  Sent(id).body.scores[k].ref_index = k - 1
           /\ Sent(id).body.summary.total_references = RefCount(id)

\* C6 witness: a list of MaxRefs references answered
C6_Witness == \E id \in Ids : Succeeded(id) /\ HasRefList(id) /\ RefCount(id) = MaxRefs

\* C7: every entry's status agrees with the score the entry reports: high exactly when
\* score > 0.7, medium exactly when 0.4 < score <= 0.7, low exactly when score <= 0.4.
C7_StatusAgreesWithScore ==
    \A id \in Ids :
        (Succeeded(id) /\ IsPlag(id))
        => \A k \in 1..Len(Sent(id).body.scores) :
               Sent(id).body.scores[k].status =
                   IF FGt(Sent(id).body.scores[k].score, F0_7) THEN "high"
                   ELSE IF FGt(Sent(id).body.scores[k].score, F0_4) THEN "medium"
                   ELSE "low"

\* C8: the language is Unknown when the trimmed length is < 10; otherwise Arabic when
\* the characters in U+0600..U+06FF outnumber twice the ASCII letters, else English
\* when the ASCII letters outnumber twice those, else Mixed.
C8_LanguageByCounts ==
    \A id \in Ids :
        (Succeeded(id) /\ HasStringText(id))
        => Sent(id).body.language =
               IF TrimmedLen(TextOf(id)) < 10 THEN "unknown"
               ELSE IF ArabicCount(TextOf(id)) > 2 * AsciiLetterCount(TextOf(id))
                    THEN "arabic"
               ELSE IF AsciiLetterCount(TextOf(id)) > 2 * ArabicCount(TextOf(id))
                    THEN "english"
               ELSE "mixed"

\* C9: human_probability is present exactly on the results that carry an analysis
\* (trimmed length >= 20), and then human_probability = round(1 - ai_probability, 3)
\* and ai_probability + human_probability = 1.
C9_HumanProbability ==
    \A id \in Ids :
        (Succeeded(id) /\ HasStringText(id))
        => /\ "human_probability" \in DOMAIN Sent(id).body
                <=> "analysis" \in DOMAIN Sent(id).body
           /\ "analysis" \in DOMAIN Sent(id).body <=> TrimmedLen(TextOf(id)) >= 20
           /\ "human_probability" \in DOMAIN Sent(id).body
                => /\ Sent(id).body.human_probability
                          = Round(FSub(F1, Sent(id).body.ai_probability), 3)
                   /\ FAdd(Sent(id).body.ai_probability, Sent(id).body.human_probability)
                          = F1

\* C9 witness: a result with ai_probability 0.7, where 1 - 0.7 is not 0.3 before rounding
C9_Witness ==
    \E id \in Ids :
        /\ Succeeded(id) /\ HasStringText(id)
        /\ "human_probability" \in DOMAIN Sent(id).body
        /\ Sent(id).body.ai_probability = F0_7
        /\ FSub(F1, F0_7) # F0_3

====
